---- MODULE Spec2Model ----
(***************************************************************************)
(* Model of scanpy/tools/score_genes.py: the gene-set scorer score_genes   *)
(* and the cell-cycle classifier score_genes_cell_cycle.                   *)
(*                                                                         *)
(* The annotated data container is its expression matrix X (cells x genes) *)
(* and its observation-annotation table obs (column name -> column).       *)
(* numpy's process-wide generator is the variable rng.  Each call of one   *)
(* of the two functions is one action; the record last keeps what the call *)
(* did (its arguments, how it ended, what it returned, and the control     *)
(* genes it drew).                                                          *)
(*                                                                         *)
(* Numbers.  Matrix entries are small naturals or missing (NaN), so every   *)
(* mean is a rational or NaN: averages and scores are kept as the exact    *)
(* fraction num/den (den > 0), or as NaN.  With entries this small the     *)
(* float comparisons of the code agree with the exact ones.                *)
(*                                                                         *)
(* Libraries.  obs_cut.loc[gene_list] with labels missing from the index   *)
(* depends on the pandas in use: it raises KeyError when none of the       *)
(* labels is found, and for some missing labels either raises KeyError or  *)
(* yields NaN rows.  The variable strictLoc is that choice.  A float       *)
(* Series floor-divided by 0 is inf (NaN stays NaN).  Indexing the         *)
(* container with an empty list of genes gives a matrix of zero columns,   *)
(* whose row mean is NaN.  np.random is a small deterministic generator:   *)
(* a state, a seeding function and a Fisher-Yates shuffle that draws from  *)
(* the state.  gene_list and gene_pool are given without duplicates, the   *)
(* pool in column order, and ctrl_size is not negative.                    *)
(***************************************************************************)
EXTENDS Integers, Sequences, FiniteSets, TLC

\* ------------------------------------------------------------------ bounds
MaxCtrl == 2
MaxBins == 4
MaxSeed == 1

\* ------------------------------------------------------------ the universe
\* adata.var_names, in column order
VarNames == <<"A", "B", "C", "D">>
Genes == {VarNames[i] : i \in 1..Len(VarNames)}
\* a name that is no gene of the matrix
Unknown == {"U"}
Names == Genes \cup Unknown
\* adata.obs_names
Cells == {"c1", "c2"}
\* the expression profiles a cell can have
Row(a, b, c, d) == [g \in Genes |->
    IF g = "A" THEN a ELSE IF g = "B" THEN b ELSE IF g = "C" THEN c ELSE d]
\* a missing entry of adata.X (NaN)
Missing == -1
Rows == {Row(0, 1, 1, 2), Row(2, 1, 0, 0), Row(1, 1, 1, Missing)}
Matrices == [Cells -> Rows]
\* the states of the generator
RngStates == {0, 1, 2, 3}
RngMod == Cardinality(RngStates)

VARIABLES X, obs, rng, strictLoc, last
vars == <<X, obs, rng, strictLoc, last>>

\* ------------------------------------------------------------- arithmetic
Min(a, b) == IF a < b THEN a ELSE b

RECURSIVE SumOver(_, _)
SumOver(f, S) ==
    IF S = {} THEN 0
    ELSE LET x == CHOOSE y \in S : TRUE IN f[x] + SumOver(f, S \ {x})

\* floor(n / d) for d > 0
FloorDivPos(n, d) == IF n >= 0 THEN n \div d ELSE -(((-n) + d - 1) \div d)

\* int(np.round(a / b)) for b # 0: numpy rounds halves to the even integer
RoundHalfEven(a, b) ==
    LET n == IF b < 0 THEN -a ELSE a
        d == IF b < 0 THEN -b ELSE b
        q == FloorDivPos(n, d)
        r == n - q * d
    IN  IF 2 * r < d THEN q
        ELSE IF 2 * r > d THEN q + 1
        ELSE IF q % 2 = 0 THEN q ELSE q + 1

\* ------------------------------------------------------------------ scores
NaN == [nan |-> TRUE, num |-> 0, den |-> 1]
Frac(n, d) == [nan |-> FALSE, num |-> n, den |-> d]

\* np.mean(adata[:, cols].X, axis=1)[c]: NaN over zero columns, and NaN when
\* an entry is missing
RowMean(Xm, c, cols) ==
    IF cols = {} \/ (\E g \in cols : Xm[c][g] = Missing) THEN NaN
    ELSE Frac(SumOver(Xm[c], cols), Cardinality(cols))

\* a - b on floats: NaN propagates
Sub(a, b) ==
    IF a.nan \/ b.nan THEN NaN
    ELSE Frac(a.num * b.den - b.num * a.den, a.den * b.den)

\* a < 0, a > b and a < b on floats: every comparison with NaN is False
Neg(a) == ~a.nan /\ a.num < 0
Gt(a, b) == ~a.nan /\ ~b.nan /\ a.num * b.den > b.num * a.den
Lt(a, b) == ~a.nan /\ ~b.nan /\ a.num * b.den < b.num * a.den

\* --------------------------------------------------- the generator (numpy)
\* np.random.seed(s): the state is a function of the seed alone
SeedState(s) == s % RngMod
NextRng(r) == (5 * r + 3) % RngMod

\* np.random.shuffle: for i = n-1 .. 1, swap x[i] with x[j], j drawn in 0..i
RECURSIVE ShuffleFrom(_, _, _)
ShuffleFrom(s, i, r) ==
    IF i < 2 THEN [seq |-> s, rng |-> r]
    ELSE LET j == 1 + (r % i)
             t == [s EXCEPT ![i] = s[j], ![j] = s[i]]
         IN  ShuffleFrom(t, i - 1, NextRng(r))

shuffle(s, r) == ShuffleFrom(s, Len(s), r)

\* ------------------------------------------------------- tables (adata.obs)
Put(t, k, v) == [x \in (DOMAIN t) \cup {k} |-> IF x = k THEN v ELSE t[x]]
EmptyTable == [x \in {} |-> 0]

\* ------------------------------------------------------------- score_genes
\* a scorer that keeps the names that are no genes of the matrix
FilterGenes_keep(gene_list) == gene_list

\* gene_list = set([x for x in gene_list if x in adata.var_names])
FilterGenes(gene_list) == {x \in gene_list : x \in Genes}

\* gene_pool: None and the empty list are both "not gene_pool"
GenePool(gene_pool) ==
    IF gene_pool = {} THEN Genes ELSE {x \in gene_pool : x \in Genes}

\* obs_avg: np.nanmean over the cells (the mean of the entries that are not
\* missing, NaN when all are), as a Series indexed by the pool
obs_avg(Xm, pool) ==
    [g \in pool |->
        LET present == {c \in Cells : Xm[c][g] # Missing}
        IN  IF present = {} THEN NaN
            ELSE Frac(SumOver([c \in Cells |-> Xm[c][g]], present),
                      Cardinality(present))]

\* obs_avg.rank(method='min'): NaN keeps NaN and is not counted
rank_min(avg) ==
    [g \in DOMAIN avg |->
        IF avg[g].nan THEN NaN
        ELSE Frac(1 + Cardinality({h \in DOMAIN avg : Lt(avg[h], avg[g])}), 1)]

\* a scorer that truncates the bin width instead of rounding it
n_items_floor(pool_size, n_bins) ==
    IF n_bins > 1 THEN pool_size \div (n_bins - 1)
    ELSE RoundHalfEven(pool_size, n_bins - 1)

\* n_items = int(np.round(len(obs_avg) / (n_bins - 1))), for n_bins # 1
n_items(pool_size, n_bins) == RoundHalfEven(pool_size, n_bins - 1)

\* a value of obs_cut: a finite number, inf (floor division by zero) or NaN
FinBin(v) == [k |-> "fin", v |-> v]
InfBin == [k |-> "inf", v |-> 0]
NaNBin == [k |-> "nan", v |-> 0]

\* r // n on floats, for a rank r (a whole number > 0, or NaN)
FloorDivide(r, n) ==
    IF r.nan THEN NaNBin
    ELSE IF n > 0 THEN FinBin(r.num \div n)
    ELSE IF n < 0 THEN FinBin(FloorDivPos(-r.num, -n))
    ELSE InfBin

\* obs_cut = obs_avg.rank(method='min') // n_items, a Series over the pool
obs_cut(Xm, pool, n_bins) ==
    LET rk == rank_min(obs_avg(Xm, pool))
        n == n_items(Cardinality(pool), n_bins)
    IN  [g \in pool |-> FloorDivide(rk[g], n)]

\* the order np.unique sorts floats in: finite ascending, inf, NaN last
BinLess(a, b) ==
    \/ a.k = "fin" /\ b.k = "fin" /\ a.v < b.v
    \/ a.k = "fin" /\ b.k # "fin"
    \/ a.k = "inf" /\ b.k = "nan"

RECURSIVE SortBins(_)
SortBins(S) ==
    IF S = {} THEN <<>>
    ELSE LET m == CHOOSE x \in S : \A y \in S \ {x} : BinLess(x, y)
         IN  <<m>> \o SortBins(S \ {m})

\* obs_cut.loc[gene_list] raises KeyError
LocKeyError(gl, pool, strict) ==
    /\ gl # {}
    /\ gl \ pool # {}
    /\ (strict \/ gl \cap pool = {})

\* the values of obs_cut.loc[gene_list]: a label missing from the index is NaN
LocValues(cutf, gl) ==
    {cutf[g] : g \in gl \cap DOMAIN cutf}
        \cup (IF gl \ DOMAIN cutf # {} THEN {NaNBin} ELSE {})

\* r_genes = obs_cut[obs_cut == cut].index, in index order (NaN equals nothing)
r_genes(cutf, cut) ==
    LET In(g) == g \in DOMAIN cutf /\ cut.k # "nan" /\ cutf[g] = cut
    IN  SelectSeq(VarNames, In)

\* a scorer that takes the whole cut
TakeFirst_all(s, ctrl_size) == {s[i] : i \in 1..Len(s)}

\* set(r_genes[:ctrl_size]), ctrl_size >= 0
TakeFirst(s, ctrl_size) == {s[i] : i \in 1..Min(ctrl_size, Len(s))}

\* the loop over np.unique(obs_cut.loc[gene_list]): one shuffle per cut
RECURSIVE DrawLoop(_, _, _, _)
DrawLoop(cuts, cutf, ctrl_size, acc) ==
    IF cuts = <<>> THEN acc
    ELSE LET cut == Head(cuts)
             sh == shuffle(r_genes(cutf, cut), acc.rng)
             got == TakeFirst(sh.seq, ctrl_size)
         IN  DrawLoop(Tail(cuts), cutf, ctrl_size,
                      [rng |-> sh.rng,
                       raw |-> acc.raw \cup got,
                       drawn |-> acc.drawn \cup {[cut |-> cut, genes |-> got]},
                       nshuffle |-> acc.nshuffle + 1])

\* a scorer that leaves the target genes among the control genes
ControlGenes_keep(raw, gl) == raw

\* control_genes = list(control_genes - gene_list)
ControlGenes(raw, gl) == raw \ gl

\* the body of score_genes on the resolved container's table t, from the
\* generator state r0: a record of how it ended and of what it did
ScoreRun(t, r0, Xm, strict, gene_list, ctrl_size, gene_pool, n_bins, score_name, random_state) ==
    LET r1 == IF random_state # 0 THEN SeedState(random_state) ELSE r0
        gl == FilterGenes(gene_list)
        pool == GenePool(gene_pool)
        stop(e) == [outcome |-> e, obs |-> t, rng |-> r1, gl |-> gl,
                    pool |-> pool, cut |-> <<>>, raw |-> {}, control |-> {},
                    drawn |-> {}, nshuffle |-> 0, wrote |-> FALSE,
                    score |-> <<>>]
    IN  IF n_bins = 1 THEN stop("ZeroDivisionError")
        ELSE
        LET cutf == obs_cut(Xm, pool, n_bins)
        IN  IF LocKeyError(gl, pool, strict)
            THEN [stop("KeyError") EXCEPT !.cut = cutf]
            ELSE
            LET cuts == SortBins(LocValues(cutf, gl))
                d == DrawLoop(cuts, cutf, ctrl_size,
                              [rng |-> r1, raw |-> {}, drawn |-> {},
                               nshuffle |-> 0])
                control == ControlGenes(d.raw, gl)
                score == [c \in Cells |->
                             Sub(RowMean(Xm, c, gl), RowMean(Xm, c, control))]
            IN  IF ~(gl \subseteq Genes)
                \* adata[:, gene_list] with a name that is no gene
                THEN [stop("KeyError") EXCEPT !.cut = cutf, !.rng = d.rng,
                          !.raw = d.raw, !.control = control,
                          !.drawn = d.drawn, !.nshuffle = d.nshuffle]
                ELSE [outcome |-> "ok", obs |-> Put(t, score_name, score),
                      rng |-> d.rng, gl |-> gl, pool |-> pool, cut |-> cutf,
                      raw |-> d.raw, control |-> control, drawn |-> d.drawn,
                      nshuffle |-> d.nshuffle, wrote |-> TRUE,
                      score |-> score]

\* ------------------------------------------------------------- containers
\* The containers alive during a call are a sequence of observation tables;
\* a container is its index.  The caller's container is index 1.
Original == 1
\* a call that returns nothing (None), or that raised
NoValue == 0

\* a call that clones and then works on the caller's container all the same
Resolve_inplace(copy, adata, fresh) == adata

\* adata = adata.copy() if copy else adata: the container the call works on
Resolve(copy, adata, fresh) == IF copy THEN fresh ELSE adata

\* return adata if copy else None
Returned(copy, adata) == IF copy THEN adata ELSE NoValue

\* score_genes(adata, ...) on the containers h from the generator state r0
ScoreGenesCall(h, adata, r0, Xm, strict, gene_list, ctrl_size, gene_pool, n_bins, score_name, random_state, copy) ==
    LET h1 == IF copy THEN Append(h, h[adata]) ELSE h
        target == Resolve(copy, adata, Len(h) + 1)
        run == ScoreRun(h1[target], r0, Xm, strict, gene_list, ctrl_size,
                        gene_pool, n_bins, score_name, random_state)
    IN  [heap |-> [h1 EXCEPT ![target] = run.obs],
         rng |-> run.rng,
         outcome |-> run.outcome,
         ret |-> IF run.outcome = "ok" THEN Returned(copy, target) ELSE NoValue,
         call |-> [gene_list |-> gene_list, ctrl_size |-> ctrl_size,
                   gene_pool |-> gene_pool, n_bins |-> n_bins,
                   score_name |-> score_name, random_state |-> random_state,
                   copy |-> copy, adata |-> adata, target |-> target,
                   table0 |-> h1[target], rng0 |-> r0, run |-> run]]

\* -------------------------------------------------- score_genes_cell_cycle
\* a classifier that takes the longer of the two lists
CtrlSize_max(s_genes, g2m_genes) ==
    IF Cardinality(s_genes) > Cardinality(g2m_genes)
    THEN Cardinality(s_genes) ELSE Cardinality(g2m_genes)

\* ctrl_size = min(len(s_genes), len(g2m_genes))
CtrlSize(s_genes, g2m_genes) == Min(Cardinality(s_genes), Cardinality(g2m_genes))

\* a classifier whose G1 pass runs before its G2M pass
PhaseOf_G1First(S_score, G2M_score) ==
    LET p0 == "S"
        p1 == IF Neg(S_score) /\ Neg(G2M_score) THEN "G1" ELSE p0
        p2 == IF Gt(G2M_score, S_score) THEN "G2M" ELSE p1
    IN  p2

\* the three passes over one cell: default S, then G2M, then G1
PhaseOf(S_score, G2M_score) ==
    LET p0 == "S"
        p1 == IF Gt(G2M_score, S_score) THEN "G2M" ELSE p0
        p2 == IF Neg(S_score) /\ Neg(G2M_score) THEN "G1" ELSE p1
    IN  p2

\* lines 160-173, once both scores are in the table of the container target
AssignPhase(c1, c2, copy, target) ==
    LET scores == c2.heap[target]
        phase == [c \in Cells |->
                     PhaseOf(scores["S_score"][c], scores["G2M_score"][c])]
    IN  [heap |-> [c2.heap EXCEPT ![target] = Put(scores, "phase", phase)],
         rng |-> c2.rng, outcome |-> "ok", ret |-> Returned(copy, target),
         calls |-> <<c1.call, c2.call>>]

\* line 159 has run: an exception of the second scorer call propagates
AfterG2M(c1, c2, copy, target) ==
    IF c2.outcome # "ok"
    THEN [heap |-> c2.heap, rng |-> c2.rng, outcome |-> c2.outcome,
          ret |-> NoValue, calls |-> <<c1.call, c2.call>>]
    ELSE AssignPhase(c1, c2, copy, target)

\* line 157 has run: an exception of the first scorer call propagates
AfterS(c1, Xm, strict, g2m_genes, ctrl_size, copy, target, kwargs) ==
    IF c1.outcome # "ok"
    THEN [heap |-> c1.heap, rng |-> c1.rng, outcome |-> c1.outcome,
          ret |-> NoValue, calls |-> <<c1.call>>]
    ELSE AfterG2M(c1,
                  ScoreGenesCall(c1.heap, target, c1.rng, Xm, strict,
                                 g2m_genes, ctrl_size, kwargs.gene_pool,
                                 kwargs.n_bins, "G2M_score",
                                 kwargs.random_state, FALSE),
                  copy, target)

\* score_genes_cell_cycle(adata, s_genes, g2m_genes, copy, **kwargs) on the
\* containers h.  kwargs.ctrl_size says whether kwargs holds a ctrl_size: the
\* inner call then names ctrl_size twice and Python raises TypeError.
CellCycleCall(h, adata, r0, Xm, strict, s_genes, g2m_genes, copy, kwargs) ==
    LET h1 == IF copy THEN Append(h, h[adata]) ELSE h
        target == Resolve(copy, adata, Len(h) + 1)
        ctrl_size == CtrlSize(s_genes, g2m_genes)
    IN  IF kwargs.ctrl_size
        THEN [heap |-> h1, rng |-> r0, outcome |-> "TypeError",
              ret |-> NoValue, calls |-> <<>>]
        ELSE AfterS(ScoreGenesCall(h1, target, r0, Xm, strict, s_genes,
                                   ctrl_size, kwargs.gene_pool, kwargs.n_bins,
                                   "S_score", kwargs.random_state, FALSE),
                    Xm, strict, g2m_genes, ctrl_size, copy, target, kwargs)

\* ------------------------------------------------------------------ inputs
\* gene lists: empty, known genes, known and unknown names, unknown only
GeneLists == {{}, {"A"}, {"A", "B"}, {"C", "D"}, {"A", "U"}, {"U"}}
\* gene pools; the empty set stands for gene_pool=None (and an empty list)
GenePools == {{}, {"U"}, {"A"}, {"B", "C", "D", "U"}}
CtrlSizes == 0..MaxCtrl
NBins == 0..MaxBins
Seeds == 0..MaxSeed
\* the gene lists of the two phases
PhaseLists == {{"A"}, {"A", "B", "U"}, {"C", "D"}}
\* the scorer options passed through **kwargs
Kwargs == [ctrl_size : BOOLEAN, gene_pool : {{}, {"A", "B", "C"}},
           n_bins : NBins, random_state : Seeds]

\* a column left in adata.obs by earlier work
Stale == [c \in Cells |-> Frac(7, 1)]
InitTables == {Put(EmptyTable, "score", Stale)}

NoCall == [op |-> "none", calls |-> <<>>]

Init ==
    /\ X \in Matrices
    /\ obs \in InitTables
    /\ rng \in RngStates
    /\ strictLoc \in BOOLEAN
    /\ last = NoCall

\* one call of score_genes on the caller's container
ScoreGenes(gene_list, ctrl_size, gene_pool, n_bins, random_state, copy) ==
    /\ \E c \in {ScoreGenesCall(<<obs>>, Original, rng, X, strictLoc, gene_list,
                               ctrl_size, gene_pool, n_bins, "score",
                               random_state, copy)} :
           /\ obs' = c.heap[Original]
           /\ rng' = c.rng
           /\ last' = [op |-> "score_genes", copy |-> copy,
                       obs0 |-> obs, rng0 |-> rng,
                       outcome |-> c.outcome, ret |-> c.ret,
                       heap |-> c.heap, calls |-> <<c.call>>]
    /\ UNCHANGED <<X, strictLoc>>

\* one call of score_genes_cell_cycle on the caller's container
ScoreGenesCellCycle(s_genes, g2m_genes, copy, kwargs) ==
    /\ \E c \in {CellCycleCall(<<obs>>, Original, rng, X, strictLoc, s_genes,
                              g2m_genes, copy, kwargs)} :
           /\ obs' = c.heap[Original]
           /\ rng' = c.rng
           /\ last' = [op |-> "score_genes_cell_cycle", copy |-> copy,
                       s_genes |-> s_genes, g2m_genes |-> g2m_genes,
                       kwargs |-> kwargs, obs0 |-> obs, rng0 |-> rng,
                       outcome |-> c.outcome, ret |-> c.ret,
                       heap |-> c.heap, calls |-> c.calls]
    /\ UNCHANGED <<X, strictLoc>>

\* the caller: one call per behaviour, with any arguments
CallScoreGenes ==
    /\ last.op = "none"
    /\ \E gene_list \in GeneLists, ctrl_size \in CtrlSizes,
          gene_pool \in GenePools, n_bins \in NBins, random_state \in Seeds,
          copy \in BOOLEAN :
          ScoreGenes(gene_list, ctrl_size, gene_pool, n_bins, random_state, copy)

CallScoreGenesCellCycle ==
    /\ last.op = "none"
    /\ \E s_genes \in PhaseLists, g2m_genes \in PhaseLists, copy \in BOOLEAN,
          kwargs \in Kwargs :
          ScoreGenesCellCycle(s_genes, g2m_genes, copy, kwargs)

Next ==
    \/ CallScoreGenes
    \/ CallScoreGenesCellCycle

Spec == Init /\ [][Next]_vars

\* ================================================================== claims
\* the scorer calls of the last call (score_genes itself, or the inner calls
\* of score_genes_cell_cycle)
CallIds == 1..Len(last.calls)
\* the container the last call worked on
Resolved == IF last.copy THEN 2 ELSE Original
CellCycleDone == last.op = "score_genes_cell_cycle" /\ last.outcome = "ok"

\* C1: after score_genes_cell_cycle every cell's phase is decided by its
\* (S_score, G2M_score) alone: G1 when both are negative (also when
\* G2M_score > S_score), otherwise G2M when G2M_score > S_score, otherwise S.
C1_PhaseIsFunctionOfScores ==
    CellCycleDone =>
        \A c \in Cells :
            LET t == last.heap[Resolved]
                s == t["S_score"][c]
                g == t["G2M_score"][c]
                bothNeg == ~s.nan /\ ~g.nan /\ s.num < 0 /\ g.num < 0
                higher == ~s.nan /\ ~g.nan /\ g.num * s.den > s.num * g.den
            IN  /\ bothNeg => t["phase"][c] = "G1"
                /\ (~bothNeg /\ higher) => t["phase"][c] = "G2M"
                /\ (~bothNeg /\ ~higher) => t["phase"][c] = "S"

\* a cell with both scores negative and G2M_score > S_score got G1
C1_Witness ==
    /\ CellCycleDone
    /\ \E c \in Cells :
           LET t == last.heap[Resolved]
           IN  /\ Neg(t["S_score"][c]) /\ Neg(t["G2M_score"][c])
               /\ Gt(t["G2M_score"][c], t["S_score"][c])
               /\ t["phase"][c] = "G1"

\* C2: the control gene set that is averaged and subtracted never holds a gene
\* of the filtered gene_list.
C2_ControlDisjoint ==
    \A i \in CallIds :
        last.calls[i].run.control \cap last.calls[i].run.gl = {}

\* the sampled cuts held a target gene, and control genes remain
C2_Witness ==
    \E i \in CallIds :
        /\ last.calls[i].run.outcome = "ok"
        /\ last.calls[i].run.raw \cap last.calls[i].run.gl # {}
        /\ last.calls[i].run.control # {}

\* C3: with the same inputs and the same random_state (0 included), a second
\* invocation from any state of the generator selects the same control genes
\* and writes the same scores (stated for a valid n_bins >= 2).
C3_SameSeedSameResult ==
    \A i \in {j \in CallIds : last.calls[j].n_bins >= 2} : \A r \in RngStates :
        \A again \in {ScoreRun(last.calls[i].table0, r, X, strictLoc,
                               last.calls[i].gene_list, last.calls[i].ctrl_size,
                               last.calls[i].gene_pool, last.calls[i].n_bins,
                               last.calls[i].score_name,
                               last.calls[i].random_state)} :
            /\ again.outcome = last.calls[i].run.outcome
            /\ again.control = last.calls[i].run.control
            /\ again.score = last.calls[i].run.score

\* C4: a completed call with copy=True leaves the caller's table as it was and
\* returns one new container that holds the new columns; with copy=False the
\* caller's table holds the new columns and nothing is returned.  The inner
\* scorer calls of the classifier work on the resolved container, uncloned.
C4_CopySemantics ==
    (last.op # "none" /\ last.outcome = "ok") =>
        LET new == IF last.op = "score_genes" THEN {"score"}
                   ELSE {"S_score", "G2M_score", "phase"}
        IN  /\ last.copy =>
                /\ obs = last.obs0
                /\ last.ret # NoValue /\ last.ret # Original
                /\ Len(last.heap) = 2
                /\ new \subseteq DOMAIN last.heap[last.ret]
                /\ \A i \in CallIds :
                       last.heap[last.ret][last.calls[i].score_name]
                           = last.calls[i].run.score
                /\ \A k \in (DOMAIN last.obs0) \ new :
                       last.heap[last.ret][k] = last.obs0[k]
            /\ ~last.copy =>
                /\ last.ret = NoValue
                /\ Len(last.heap) = 1
                /\ new \subseteq DOMAIN obs
                /\ \A i \in CallIds :
                       obs[last.calls[i].score_name] = last.calls[i].run.score
                /\ \A k \in (DOMAIN last.obs0) \ new : obs[k] = last.obs0[k]
            /\ last.op = "score_genes_cell_cycle" =>
                \A i \in CallIds :
                    /\ ~last.calls[i].copy
                    /\ last.calls[i].adata = Resolved
                    /\ last.calls[i].target = Resolved

\* the classifier completed on a clone
C4_Witness ==
    /\ CellCycleDone
    /\ last.copy
    /\ last.ret = 2
    /\ "score" \in DOMAIN last.obs0

\* C5: names of gene_list that are no genes of the matrix change nothing: the
\* call ends as the call with those names removed ends (same outcome, control
\* genes, scores, table and generator state).
C5_UnknownGenesIgnored ==
    \A i \in CallIds :
        last.calls[i].run =
            ScoreRun(last.calls[i].table0, last.calls[i].rng0, X, strictLoc,
                     last.calls[i].gene_list \ Unknown, last.calls[i].ctrl_size,
                     last.calls[i].gene_pool, last.calls[i].n_bins,
                     last.calls[i].score_name, last.calls[i].random_state)

\* a completed scorer call whose gene_list held a known and an unknown name
C5_Witness ==
    \E i \in CallIds :
        /\ last.calls[i].gene_list \cap Unknown # {}
        /\ last.calls[i].gene_list \cap Genes # {}
        /\ last.calls[i].run.outcome = "ok"
        /\ last.calls[i].run.control # {}

\* C6: from a bin b that holds a gene of the filtered gene_list the scorer
\* draws min(ctrl_size, number of pool genes in b) genes, all of them pool
\* genes of b; from every other bin it draws none.  (A gene whose expression
\* is missing in every cell is in no bin, and is never drawn.)
C6_DrawnPerBin ==
    \A i \in CallIds :
        last.calls[i].run.outcome = "ok" =>
            LET run == last.calls[i].run
                pool == run.pool
                bins == {run.cut[g] : g \in pool} \ {NaNBin}
                from(b) == UNION {d.genes : d \in {e \in run.drawn : e.cut = b}}
            IN  /\ \A b \in bins :
                       LET pop == {g \in pool : run.cut[g] = b}
                           touched == \E g \in run.gl \cap pool : run.cut[g] = b
                           want == IF last.calls[i].ctrl_size < Cardinality(pop)
                                   THEN last.calls[i].ctrl_size
                                   ELSE Cardinality(pop)
                       IN  /\ from(b) \subseteq pop
                           /\ touched => Cardinality(from(b)) = want
                           /\ ~touched => from(b) = {}
                /\ \A d \in run.drawn : d.cut \notin bins => d.genes = {}
                /\ run.raw = UNION {d.genes : d \in run.drawn}

\* a cut with more pool genes than ctrl_size was sampled, another cut was not
C6_Witness ==
    \E i \in CallIds :
        LET run == last.calls[i].run
        IN  /\ run.outcome = "ok"
            /\ last.calls[i].ctrl_size > 0
            /\ \E g \in run.gl \cap run.pool :
                   Cardinality({h \in run.pool : run.cut[h] = run.cut[g]})
                       > last.calls[i].ctrl_size
            /\ \E h \in run.pool :
                   \A g \in run.gl \cap run.pool : run.cut[g] # run.cut[h]

\* C7: with n_bins <= 1, or a bin width that is zero or negative, score_genes
\* ends in an error before any shuffle and before any column is written.
C7_InvalidBinsFailFast ==
    \A i \in CallIds :
        (\/ last.calls[i].n_bins <= 1
         \/ n_items(Cardinality(last.calls[i].run.pool),
                    last.calls[i].n_bins) <= 0)
            => /\ last.calls[i].run.outcome # "ok"
               /\ last.calls[i].run.nshuffle = 0
               /\ ~last.calls[i].run.wrote

\* C8: a gene list or a gene pool that is empty after the intersection with
\* the gene names is no error: the call completes and writes the column.
C8_EmptyAfterFilterCompletes ==
    \A i \in CallIds :
        (/\ last.calls[i].n_bins >= 2
         /\ (last.calls[i].run.gl = {} \/ last.calls[i].run.pool = {}))
            => /\ last.calls[i].run.outcome = "ok"
               /\ last.calls[i].run.wrote

\* C9 as stated: score_genes_cell_cycle called with a ctrl_size among the
\* scorer options still runs its scorer calls, with min(len(s_genes),
\* len(g2m_genes)).
C9_CallerCtrlSizeOverridden ==
    (last.op = "score_genes_cell_cycle" /\ last.kwargs.ctrl_size) =>
        /\ last.outcome # "TypeError"
        /\ Len(last.calls) >= 1
        /\ \A i \in CallIds :
               last.calls[i].ctrl_size
                   = Min(Cardinality(last.s_genes), Cardinality(last.g2m_genes))

\* C9 amended: every scorer call score_genes_cell_cycle makes has ctrl_size =
\* min(len(s_genes), len(g2m_genes)); a ctrl_size among the scorer options
\* ends the call in a TypeError before any scorer call, with no column written
\* and the generator untouched.
C9_CtrlSizeForced ==
    last.op = "score_genes_cell_cycle" =>
        /\ \A i \in CallIds :
               LET n == last.calls[i].ctrl_size
               IN  /\ n <= Cardinality(last.s_genes)
                   /\ n <= Cardinality(last.g2m_genes)
                   /\ n \in {Cardinality(last.s_genes),
                             Cardinality(last.g2m_genes)}
        /\ last.kwargs.ctrl_size =>
               /\ last.outcome = "TypeError"
               /\ last.calls = <<>>
               /\ obs = last.obs0
               /\ rng = last.rng0
               /\ last.ret = NoValue
        /\ ~last.kwargs.ctrl_size =>
               /\ last.outcome # "TypeError"
               /\ Len(last.calls) >= 1

\* both scorer calls ran, on lists of different lengths
C9_Witness ==
    /\ CellCycleDone
    /\ Len(last.calls) = 2
    /\ Cardinality(last.g2m_genes) < Cardinality(last.s_genes)
    /\ last.s_genes \cap Unknown # {}

\* the average expression of the genes, from the matrix: for each gene the
\* total and the number of its entries that are not missing
Averages ==
    [g \in Genes |->
        LET present == {c \in Cells : X[c][g] # Missing}
        IN  [total |-> SumOver([c \in Cells |-> X[c][g]], present),
             count |-> Cardinality(present)]]

\* the pool genes that have an average, and their competition ranks: one more
\* than the number of pool genes with a lower average
Ranked(avg, pool) == {g \in pool : avg[g].count > 0}
CompetitionRanks(avg, pool) ==
    [g \in Ranked(avg, pool) |->
        1 + Cardinality({h \in Ranked(avg, pool) :
                avg[h].total * avg[g].count < avg[g].total * avg[h].count})]

\* C10 as stated: the bin of a pool gene is
\* floor(rank / ceil(pool_size / (n_bins - 1))), for n_bins >= 2 (stated for
\* pools of at least n_bins - 1 genes, where the bin width is at least 1).
C10_BinWidthIsCeil ==
    \A i \in CallIds :
        (/\ last.calls[i].n_bins >= 2
         /\ Cardinality(last.calls[i].run.pool) >= last.calls[i].n_bins - 1) =>
            LET run == last.calls[i].run
                d == last.calls[i].n_bins - 1
                width == (Cardinality(run.pool) + d - 1) \div d
                rk == CompetitionRanks(Averages, DOMAIN run.cut)
            IN  \A g \in DOMAIN rk : run.cut[g] = FinBin(rk[g] \div width)

\* C10 amended: the bin of a pool gene is floor(rank / n), n the integer
\* nearest to pool_size / (n_bins - 1), the even one of two equally near; the
\* bin is inf when n = 0.  Genes of equal average expression share their bin.
\* (A gene whose expression is missing in every cell has no rank: its bin is
\* NaN.)
C10_BinWidthIsRounded ==
    \A i \in CallIds :
        last.calls[i].n_bins >= 2 =>
            LET run == last.calls[i].run
                d == last.calls[i].n_bins - 1
                P == Cardinality(run.pool)
                off(n) == IF 2 * d * n >= 2 * P THEN 2 * d * n - 2 * P
                          ELSE 2 * P - 2 * d * n
            IN  \A avg \in {Averages} : \A rk \in {CompetitionRanks(avg, run.pool)} :
                /\ DOMAIN run.cut = run.pool
                /\ \E n \in 0..P :
                       /\ off(n) <= d
                       /\ off(n) = d => n % 2 = 0
                       /\ \A g \in DOMAIN rk :
                              /\ n = 0 => run.cut[g] = InfBin
                              /\ n > 0 => /\ run.cut[g].k = "fin"
                                          /\ run.cut[g].v * n <= rk[g]
                                          /\ rk[g] < (run.cut[g].v + 1) * n
                /\ \A g, h \in DOMAIN rk :
                       avg[g].total * avg[h].count = avg[h].total * avg[g].count
                           => run.cut[g] = run.cut[h]
                /\ \A g \in run.pool \ DOMAIN rk : run.cut[g] = NaNBin

\* four pool genes in bins of rounded width 1 (ceil gives 2), two of them tied
C10_Witness ==
    \E i \in CallIds :
        LET run == last.calls[i].run
        IN  /\ last.calls[i].n_bins = 4
            /\ Cardinality(run.pool) = 4
            /\ DOMAIN run.cut = run.pool
            /\ \A g \in run.pool : run.cut[g].k = "fin"
            /\ \E g, h \in run.pool : g # h /\ run.cut[g] = run.cut[h]
            /\ \E g, h \in run.pool : run.cut[g] # run.cut[h]

====
